---- MODULE Spec2Model ----
(***************************************************************************)
(* The vga_ball userspace program (hello.c), in its two variants:          *)
(*   "submission"  src/submission/hello.c  pixel-space motion              *)
(*   "sw"          src/sw/hello.c          normalized-space motion         *)
(* The C type float is IEEE-754 binary32, evaluated in single precision    *)
(* with round-to-nearest-even (FLT_EVAL_METHOD 0, no contraction).  A      *)
(* float is the pair <<m, e>> of value m * 2^e, with m = 0 (and e = 0) or  *)
(* 2^23 <= |m| < 2^24.  The values the program handles are far from the    *)
(* subnormal and overflow ranges, which are not modelled.                  *)
(***************************************************************************)
EXTENDS Integers, Sequences, FiniteSets, TLC

VARIABLES
    variant,      \* which hello.c is running: "submission" or "sw"
    pc,           \* position of main
    vga_ball_fd,  \* the global file descriptor: 0 before open, -1 failed, 3 open
    status,       \* the return value of main, 0 while running
    h, s, v,      \* hue, saturation, value (floats)
    r, g, b,      \* the int outputs of hsv_to_rgb
    x, y,         \* position: unsigned short (submission) or float (sw)
    dx, dy,       \* velocity: int (submission) or float (sw)
    color,        \* vga_ball_color_t color of the current tick
    position,     \* vga_ball_position_t position of the current tick
    reqs,         \* the ioctl requests of the current tick: <<code, argument, return>>
    issued,       \* the request codes issued since the program started
    ticks,        \* completed iterations of the for (;;) loop
    ref           \* the animation state after `ticks` iterations in which no call fails

vars == <<variant, pc, vga_ball_fd, status, h, s, v, r, g, b, x, y, dx, dy,
          color, position, reqs, issued, ticks, ref>>

----------------------------------------------------------------------------
(* IEEE-754 binary32 arithmetic on <<m, e>> pairs.  All intermediate        *)
(* integers stay below 2^31.                                                *)

FLT_MANT_DIG == 24

Abs(n) == IF n < 0 THEN -n ELSE n

Sgn(n) == IF n < 0 THEN -1 ELSE IF n > 0 THEN 1 ELSE 0

\* the magnitude f with the sign sg
Signed(sg, f) == <<sg * f[1], f[2]>>

\* round-to-nearest-even of m + rb/4 (+ a fraction when st) units of 2^e
RoundEven(m, rb, e, st) ==
    IF rb = 3 \/ (rb = 2 /\ (st \/ m % 2 = 1))
    THEN IF m + 1 = 2^FLT_MANT_DIG THEN <<2^(FLT_MANT_DIG - 1), e + 1>> ELSE <<m + 1, e>>
    ELSE <<m, e>>

\* Round the magnitude q * 2^e (+ a non-zero fraction below q's unit when st)
\* to a float: q is brought to FLT_MANT_DIG + 2 bits, then rounded on the two
\* dropped bits and the sticky flag.
RECURSIVE Round(_, _, _)
Round(q, e, st) ==
    IF q = 0 THEN <<0, 0>>
    ELSE IF q >= 2^(FLT_MANT_DIG + 2) THEN Round(q \div 2, e + 1, st \/ (q % 2 = 1))
    ELSE IF q < 2^(FLT_MANT_DIG + 1) THEN Round(q * 2, e - 1, st)
    ELSE RoundEven(q \div 4, q % 4, e + 2, st)

\* (float)n for an int n
FromInt(n) == Signed(Sgn(n), Round(Abs(n), 0, FALSE))

FNeg(fa) == <<-fa[1], fa[2]>>

\* n shifted right by d bits: <<the bits kept, whether a non-zero bit was lost>>
ShiftSticky(n, d) == IF d > 27 THEN <<0, TRUE>> ELSE <<n \div 2^d, n % 2^d # 0>>

\* the signed sum mag * 2^(big[2] - 3), of the sign of big when mag >= 0
AddRound(big, mag, st) ==
    Signed(IF mag >= 0 THEN Sgn(big[1]) ELSE -Sgn(big[1]), Round(Abs(mag), big[2] - 3, st))

\* B is |big| and ss the shifted |sml| with its sticky flag, both behind three guard bits
AddMag(big, B, ss, same) ==
    AddRound(big, IF same THEN B + ss[1] ELSE IF ss[2] THEN B - ss[1] - 1 ELSE B - ss[1], ss[2])

\* big + sml, the exponent of big being the larger
AddOrd(big, sml) ==
    AddMag(big, Abs(big[1]) * 8, ShiftSticky(Abs(sml[1]) * 8, big[2] - sml[2]),
           (big[1] > 0) = (sml[1] > 0))

\* fa + fb
FAdd(fa, fb) ==
    IF fa[1] = 0 THEN fb
    ELSE IF fb[1] = 0 THEN fa
    ELSE IF fa[2] >= fb[2] THEN AddOrd(fa, fb) ELSE AddOrd(fb, fa)

FSub(fa, fb) == FAdd(fa, FNeg(fb))

\* the product hi * 2^24 + lo24 (in [2^46, 2^48)) times 2^e, rounded
MulRound(hi, lo24, e) ==
    IF hi >= 2^23 THEN Round(hi * 4 + lo24 \div 2^22, e + 22, lo24 % 2^22 # 0)
                  ELSE Round(hi * 8 + lo24 \div 2^21, e + 21, lo24 % 2^21 # 0)

\* hh + mid * 2^12 + lo, as hi * 2^24 + lo24
MulSum(hh, mid, lo, e) ==
    MulRound(hh + mid \div 4096 + (lo + (mid % 4096) * 4096) \div 2^24,
             (lo + (mid % 4096) * 4096) % 2^24, e)

\* the 48-bit product of two 24-bit mantissas from their 12-bit halves
MulMant(ah, al, bh, bl, e) == MulSum(ah * bh, ah * bl + al * bh, al * bl, e)

\* fa * fb
FMul(fa, fb) ==
    IF fa[1] = 0 \/ fb[1] = 0 THEN <<0, 0>>
    ELSE Signed(Sgn(fa[1]) * Sgn(fb[1]),
                MulMant(Abs(fa[1]) \div 4096, Abs(fa[1]) % 4096,
                        Abs(fb[1]) \div 4096, Abs(fb[1]) % 4096, fa[2] + fb[2]))

\* n more quotient bits of rem / d, appended to q: <<quotient, remainder>>
RECURSIVE DivBits(_, _, _, _)
DivBits(rem, q, d, n) ==
    IF n = 0 THEN <<q, rem>>
    ELSE IF 2 * rem >= d THEN DivBits(2 * rem - d, 2 * q + 1, d, n - 1)
                         ELSE DivBits(2 * rem, 2 * q, d, n - 1)

DivRound(qr, e) == Round(qr[1], e, qr[2] # 0)

\* ma / mb * 2^e with n quotient bits behind the binary point
DivMant(ma, mb, n, e) == DivRound(DivBits(ma % mb, ma \div mb, mb, n), e - n)

\* fa / fb (fb # 0)
FDiv(fa, fb) ==
    IF fa[1] = 0 THEN <<0, 0>>
    ELSE Signed(Sgn(fa[1]) * Sgn(fb[1]),
                DivMant(Abs(fa[1]), Abs(fb[1]),
                        IF Abs(fa[1]) >= Abs(fb[1]) THEN FLT_MANT_DIG + 1 ELSE FLT_MANT_DIG + 2,
                        fa[2] - fb[2]))

\* fa < fb, fa >= fb, fa <= fb: the sign of the (correctly rounded) difference
FLt(fa, fb) == FSub(fa, fb)[1] < 0

FGe(fa, fb) == ~FLt(fa, fb)

FLe(fa, fb) == ~FLt(fb, fa)

\* (int)fa: truncation toward zero
ToInt(fa) ==
    IF fa[2] >= 0 THEN fa[1] * 2^fa[2]
    ELSE IF -fa[2] > 30 THEN 0
    ELSE Sgn(fa[1]) * (Abs(fa[1]) \div 2^(-fa[2]))

\* the float nearest to the decimal literal num/den (0.3 is Lit(3, 10))
Lit(num, den) == FDiv(FromInt(num), FromInt(den))

----------------------------------------------------------------------------
(* hsv_to_rgb                                                               *)

RECURSIVE NormDown(_)
NormDown(hh) == IF FGe(hh, FromInt(360)) THEN NormDown(FSub(hh, FromInt(360))) ELSE hh

RECURSIVE NormUp(_)
NormUp(hh) == IF FLt(hh, FromInt(0)) THEN NormUp(FAdd(hh, FromInt(360))) ELSE hh

\* while (h >= 360) h -= 360;  while (h < 0) h += 360;
NormalizeHue(hh) == NormUp(NormDown(hh))

\* HsvScale rounding to nearest instead of truncating
HsvScale_Rounded(rgb1) ==
    <<ToInt(FAdd(FMul(rgb1[1], FromInt(255)), Lit(1, 2))),
      ToInt(FAdd(FMul(rgb1[2], FromInt(255)), Lit(1, 2))),
      ToInt(FAdd(FMul(rgb1[3], FromInt(255)), Lit(1, 2)))>>

\* *r = (int)(r1 * 255); *g = (int)(g1 * 255); *b = (int)(b1 * 255);
HsvScale(rgb1) ==
    <<ToInt(FMul(rgb1[1], FromInt(255))),
      ToInt(FMul(rgb1[2], FromInt(255))),
      ToInt(FMul(rgb1[3], FromInt(255)))>>

\* HsvSwitch with case 1 taking t for b1 (a slip in the table)
HsvSwitch_Case1(i, vv, p, q, t) ==
    CASE i = 0 -> <<vv, t, p>>
      [] i = 1 -> <<q, vv, t>>
      [] i = 2 -> <<p, vv, t>>
      [] i = 3 -> <<p, q, vv>>
      [] i = 4 -> <<t, p, vv>>
      [] OTHER -> <<vv, p, q>>

\* HsvSwitch with case 3 taking t for g1 (q and t mixed up)
HsvSwitch_Case3(i, vv, p, q, t) ==
    CASE i = 0 -> <<vv, t, p>>
      [] i = 1 -> <<q, vv, p>>
      [] i = 2 -> <<p, vv, t>>
      [] i = 3 -> <<p, t, vv>>
      [] i = 4 -> <<t, p, vv>>
      [] OTHER -> <<vv, p, q>>

\* switch (i): <<r1, g1, b1>>
HsvSwitch(i, vv, p, q, t) ==
    CASE i = 0 -> <<vv, t, p>>
      [] i = 1 -> <<q, vv, p>>
      [] i = 2 -> <<p, vv, t>>
      [] i = 3 -> <<p, q, vv>>
      [] i = 4 -> <<t, p, vv>>
      [] OTHER -> <<vv, p, q>>

\* HsvSector with q = v * (1 - f): the saturation left out of q
HsvSector_NoSat(i, f, ss, vv) ==
    HsvScale(HsvSwitch(i, vv,
                       FMul(vv, FSub(FromInt(1), ss)),
                       FMul(vv, FSub(FromInt(1), f)),
                       FMul(vv, FSub(FromInt(1), FMul(ss, FSub(FromInt(1), f))))))

\* p = v * (1 - s); q = v * (1 - s * f); t = v * (1 - s * (1 - f));
HsvSector(i, f, ss, vv) ==
    HsvScale(HsvSwitch(i, vv,
                       FMul(vv, FSub(FromInt(1), ss)),
                       FMul(vv, FSub(FromInt(1), FMul(ss, f))),
                       FMul(vv, FSub(FromInt(1), FMul(ss, FSub(FromInt(1), f))))))

\* int i = h / 60; float f = (h / 60) - i;   (h60 is h / 60)
HsvSplit(h60, ss, vv) == HsvSector(ToInt(h60), FSub(h60, FromInt(ToInt(h60))), ss, vv)

\* <<r, g, b>> as hsv_to_rgb stores them through its pointers
hsv_to_rgb(hh, ss, vv) == HsvSplit(FDiv(NormalizeHue(hh), FromInt(60)), ss, vv)

----------------------------------------------------------------------------
(* Types of vga_ball.h (the header is not part of the sources): the wire    *)
(* fields are 8-bit (color) and 16-bit (position) unsigned integers.        *)

ColorField(n) == n % 2^8

PositionField(n) == n % 2^16

\* unsigned short, the type of x and y in the submission variant
UShort(n) == n % 2^16

----------------------------------------------------------------------------
(* The animation state and its per-tick arithmetic                          *)

MaxTicks == 730

radius == 16

FrameWidth == 640

FrameHeight == 480

Zero == FromInt(0)

One == FromInt(1)

\* HueWrap with > for >=
HueWrap_Strict(h1) == IF FLt(FromInt(360), h1) THEN Zero ELSE h1

\* h += .5; if (h >= 360.0) h = 0.0;
HueWrap(h1) == IF FGe(h1, FromInt(360)) THEN Zero ELSE h1

HueAdvance(hh) == HueWrap(FAdd(hh, Lit(1, 2)))

\* ReflectPixel with the two statements of the block exchanged: { p += d; d = -d; }
ReflectPixel_StepThenFlip(p1, d, limit) ==
    IF p1 >= limit - radius \/ p1 <= radius
    THEN <<UShort(p1 + d), -d>>
    ELSE <<p1, d>>

\* submission: p += d; if (p >= (limit-radius) || p <= radius) { d = -d; p += d; }
\* the result is <<p, d>>
\* ReflectPixel without the second application of the velocity
ReflectPixel_NoReapply(p1, d, limit) ==
    IF p1 >= limit - radius \/ p1 <= radius
    THEN <<p1, -d>>
    ELSE <<p1, d>>

ReflectPixel(p1, d, limit) ==
    IF p1 >= limit - radius \/ p1 <= radius
    THEN <<UShort(p1 - d), -d>>
    ELSE <<p1, d>>

BouncePixel(p, d, limit) == ReflectPixel(UShort(p + d), d, limit)

\* ReflectNorm without the step back: { d = -d; }
ReflectNorm_NoReapply(p1, d) ==
    IF FGe(p1, One) \/ FLe(p1, Zero)
    THEN <<p1, FNeg(d)>>
    ELSE <<p1, d>>

\* sw: p += d; if (p >= 1.0 || p <= 0.0) { d = -d; p += d; }
ReflectNorm(p1, d) ==
    IF FGe(p1, One) \/ FLe(p1, Zero)
    THEN <<FAdd(p1, FNeg(d)), FNeg(d)>>
    ELSE <<p1, d>>

BounceNorm(p, d) == ReflectNorm(FAdd(p, d), d)

\* the motion block of one tick on <<x, y, dx, dy>>
MovePair(mx, my) == <<mx[1], my[1], mx[2], my[2]>>

\* Move with the y reflection in an else branch of the x reflection:
\* when x reflects, y only advances
MoveElse(mx, m) ==
    IF mx[2] # m[3] THEN <<mx[1], UShort(m[2] + m[4]), mx[2], m[4]>>
    ELSE MovePair(mx, BouncePixel(m[2], m[4], FrameHeight))

Move_ElseIf(var, m) == MoveElse(BouncePixel(m[1], m[3], FrameWidth), m)

Move(var, m) ==
    IF var = "submission"
    THEN MovePair(BouncePixel(m[1], m[3], FrameWidth), BouncePixel(m[2], m[4], FrameHeight))
    ELSE MovePair(BounceNorm(m[1], m[3]), BounceNorm(m[2], m[4]))

\* MarshalPixel shifting by 7
MarshalPixel_Shift7(px, py) == <<PositionField(UShort(px) * 2^7), PositionField(UShort(py) * 2^7)>>

\* submission: { (unsigned short)(x) << 6, (unsigned short)(y) << 6 }
MarshalPixel(px, py) == <<PositionField(UShort(px) * 2^6), PositionField(UShort(py) * 2^6)>>

\* (unsigned short)f for a float f: truncation when the truncated value is
\* representable; otherwise the conversion is undefined, and the builds at hand
\* saturate or wrap.
UShortOf(n) == IF n \in 0..(2^16 - 1) THEN {n} ELSE {0, 2^16 - 1, n % 2^16}

ToUShort(f) == UShortOf(ToInt(f))

\* sw: { (unsigned short)(x * 170), (unsigned short)(y * 120) }: the set of results
MarshalNorm(px, py) ==
    {<<PositionField(ox), PositionField(oy)>> :
        ox \in ToUShort(FMul(px, FromInt(170))), oy \in ToUShort(FMul(py, FromInt(120)))}

Marshal(var, px, py) ==
    IF var = "submission" THEN {MarshalPixel(px, py)} ELSE MarshalNorm(px, py)

\* the animation state: hue, position, velocity
anim == <<h, x, y, dx, dy>>

\* one iteration of the loop body on the animation state
TickAnim(var, an) == <<HueAdvance(an[1])>> \o Move(var, <<an[2], an[3], an[4], an[5]>>)

----------------------------------------------------------------------------
(* main                                                                     *)

\* float x = 0.2, y;  -- y is read (y += dy) before it is ever assigned, so
\* its first value is whatever the stack slot holds
UninitFloat == {Zero, Lit(1, 2), FromInt(2), FromInt(-1)}

Init ==
    /\ variant \in {"submission", "sw"}
    /\ pc = "open"
    /\ vga_ball_fd = 0
    /\ status = 0
    /\ h = Zero
    /\ s = One
    /\ v = IF variant = "submission" THEN Lit(3, 10) ELSE One
    /\ r = 0 /\ g = 0 /\ b = 0
    /\ x = IF variant = "submission" THEN 20 ELSE Lit(2, 10)
    /\ y \in IF variant = "submission" THEN {20} ELSE UninitFloat
    /\ dx = IF variant = "submission" THEN 1 ELSE Lit(1, 100)
    /\ dy = IF variant = "submission" THEN 1 ELSE Lit(1, 100)
    /\ color = <<>>
    /\ position = <<>>
    /\ reqs = <<>>
    /\ issued = {}
    /\ ticks = 0
    /\ ref = anim

\* open(filename, O_RDWR) succeeds
OpenOk ==
    /\ pc = "open"
    /\ vga_ball_fd' = 3
    /\ pc' = "hsv"
    /\ UNCHANGED <<variant, status, h, s, v, r, g, b, x, y, dx, dy, color, position,
                   reqs, issued, ticks, ref>>

\* OpenFail without the return: main goes on into the loop
OpenFail_NoReturn ==
    /\ pc = "open"
    /\ vga_ball_fd' = -1
    /\ pc' = "hsv"
    /\ UNCHANGED <<variant, status, h, s, v, r, g, b, x, y, dx, dy, color, position,
                   reqs, issued, ticks, ref>>

\* open fails: "could not open", return -1
OpenFail ==
    /\ pc = "open"
    /\ vga_ball_fd' = -1
    /\ status' = -1
    /\ pc' = "exited"
    /\ UNCHANGED <<variant, h, s, v, r, g, b, x, y, dx, dy, color, position,
                   reqs, issued, ticks, ref>>

\* hsv_to_rgb(h, s, v, &r, &g, &b); h += .5; ...; vga_ball_color_t color = {r, g, b};
HsvStore(rgb) ==
    /\ r' = rgb[1] /\ g' = rgb[2] /\ b' = rgb[3]
    /\ color' = <<ColorField(rgb[1]), ColorField(rgb[2]), ColorField(rgb[3])>>

\* HsvStep with the two statements exchanged: h += .5; ...; hsv_to_rgb(h, ...)
HsvStep_AdvanceFirst ==
    /\ pc = "hsv"
    /\ HsvStore(hsv_to_rgb(HueAdvance(h), s, v))
    /\ h' = HueAdvance(h)
    /\ pc' = "set_background_color"
    /\ UNCHANGED <<variant, vga_ball_fd, status, s, v, x, y, dx, dy, position,
                   reqs, issued, ticks, ref>>

HsvStep ==
    /\ pc = "hsv"
    /\ HsvStore(hsv_to_rgb(h, s, v))
    /\ h' = HueAdvance(h)
    /\ pc' = "set_background_color"
    /\ UNCHANGED <<variant, vga_ball_fd, status, s, v, x, y, dx, dy, position,
                   reqs, issued, ticks, ref>>

\* one ioctl(vga_ball_fd, code, &vla): it returns 0, or -1 and the caller
\* prints a diagnostic and returns
Ioctl(code, arg, next) ==
    /\ \E ret \in {0, -1} : reqs' = Append(reqs, <<code, arg, ret>>)
    /\ issued' = issued \cup {code}
    /\ pc' = next
    /\ UNCHANGED <<variant, vga_ball_fd, status, h, s, v, r, g, b, x, y, dx, dy,
                   color, position, ticks, ref>>

set_background_color ==
    /\ pc = "set_background_color"
    /\ Ioctl("VGA_BALL_WRITE_BACKGROUND", color, "bounce")

\* x += dx; y += dy; the two reflections; vga_ball_position_t position = {...}
BounceStore(m) ==
    /\ x' = m[1] /\ y' = m[2] /\ dx' = m[3] /\ dy' = m[4]
    /\ position' \in Marshal(variant, m[1], m[2])

\* Bounce with the position marshalled before the advance
BounceStoreStale(m) ==
    /\ x' = m[1] /\ y' = m[2] /\ dx' = m[3] /\ dy' = m[4]
    /\ position' \in Marshal(variant, x, y)

Bounce_Stale ==
    /\ pc = "bounce"
    /\ BounceStoreStale(Move(variant, <<x, y, dx, dy>>))
    /\ pc' = "set_position"
    /\ UNCHANGED <<variant, vga_ball_fd, status, h, s, v, r, g, b, color,
                   reqs, issued, ticks, ref>>

Bounce ==
    /\ pc = "bounce"
    /\ BounceStore(Move(variant, <<x, y, dx, dy>>))
    /\ pc' = "set_position"
    /\ UNCHANGED <<variant, vga_ball_fd, status, h, s, v, r, g, b, color,
                   reqs, issued, ticks, ref>>

\* set_position calling ioctl again after a failure
set_position_retry ==
    /\ pc = "set_position"
    /\ \E ret \in {0, -1} :
          /\ reqs' = Append(reqs, <<"VGA_BALL_WRITE_POSITION", position, ret>>)
          /\ pc' = IF ret = 0 THEN "print_position" ELSE "set_position"
    /\ issued' = issued \cup {"VGA_BALL_WRITE_POSITION"}
    /\ UNCHANGED <<variant, vga_ball_fd, status, h, s, v, r, g, b, x, y, dx, dy,
                   color, position, ticks, ref>>

set_position ==
    /\ pc = "set_position"
    /\ Ioctl("VGA_BALL_WRITE_POSITION", position, "print_position")

\* print_position leaving the loop when the read fails
print_position_break ==
    /\ pc = "print_position"
    /\ \E ret \in {0, -1} :
          /\ reqs' = Append(reqs, <<"VGA_BALL_READ_POSITION", <<>>, ret>>)
          /\ pc' = IF ret = 0 THEN "usleep" ELSE "terminating"
    /\ issued' = issued \cup {"VGA_BALL_READ_POSITION"}
    /\ UNCHANGED <<variant, vga_ball_fd, status, h, s, v, r, g, b, x, y, dx, dy,
                   color, position, ticks, ref>>

print_position ==
    /\ pc = "print_position"
    /\ Ioctl("VGA_BALL_READ_POSITION", <<>>, "usleep")

\* usleep(...) returns and the loop starts over
usleep ==
    /\ pc = "usleep"
    /\ ticks < MaxTicks
    /\ ticks' = ticks + 1
    /\ ref' = TickAnim(variant, ref)
    /\ reqs' = <<>>
    /\ pc' = "hsv"
    /\ UNCHANGED <<variant, vga_ball_fd, status, h, s, v, r, g, b, x, y, dx, dy,
                   color, position, issued>>

Next ==
    \/ OpenOk
    \/ OpenFail
    \/ HsvStep
    \/ set_background_color
    \/ Bounce
    \/ set_position
    \/ print_position
    \/ usleep

Spec == Init /\ [][Next]_vars

\* the control flow of main: the positions that can follow pos
Succ(pos) ==
    CASE pos = "open" -> {"hsv", "exited"}
      [] pos = "hsv" -> {"set_background_color"}
      [] pos = "set_background_color" -> {"bounce"}
      [] pos = "bounce" -> {"set_position"}
      [] pos = "set_position" -> {"print_position"}
      [] pos = "print_position" -> {"usleep"}
      [] pos = "usleep" -> {"hsv"}
      [] OTHER -> {}

\* main moves on to its next position
PcAdvance ==
    /\ ~(pc = "usleep" /\ ticks >= MaxTicks)
    /\ pc' \in Succ(pc)

\* The loop under the scheduling the program has: it is the only thread, and
\* every call it makes (open, ioctl, usleep) returns, so main moves on whenever
\* it has a next position.  On the steps of Next, PcAdvance is enabled exactly
\* when Next is, and every step of Next is a PcAdvance step.
FairSpec == Spec /\ WF_pc(PcAdvance)

----------------------------------------------------------------------------
(* The MotionModel of the submission variant on its own: the motion block   *)
(* and the marshalling of the position (lines 161-176), iterated from the   *)
(* declared start.  The rest of the loop body neither reads nor writes x,   *)
(* y, dx, dy, so this is the loop projected on the position and velocity;   *)
(* it is finite without a bound on the number of ticks.                     *)

InitMotion ==
    /\ variant = "submission"
    /\ pc = "bounce"
    /\ vga_ball_fd = 3
    /\ status = 0
    /\ h = Zero /\ s = One /\ v = Lit(3, 10)
    /\ r = 0 /\ g = 0 /\ b = 0
    /\ x = 20 /\ y = 20
    /\ dx = 1 /\ dy = 1
    /\ color = <<>>
    /\ position = <<>>
    /\ reqs = <<>>
    /\ issued = {}
    /\ ticks = 0
    /\ ref = anim

MotionTick ==
    /\ pc = "bounce"
    /\ BounceStore(Move(variant, <<x, y, dx, dy>>))
    /\ UNCHANGED <<variant, pc, vga_ball_fd, status, h, s, v, r, g, b, color,
                   reqs, issued, ticks, ref>>

SpecMotion == InitMotion /\ [][MotionTick]_vars

\* the loop has no exit and usleep returns: every tick is followed by another
FairMotion == SpecMotion /\ WF_vars(MotionTick)

----------------------------------------------------------------------------
(* hsv_to_rgb on its own: one call on each input of a bounded set           *)

\* the hues the loops pass: 0, 0.5, ..., 359.5
HueGrid == {Lit(k, 2) : k \in 0..(2 * 360 - 1)}

\* the upper ends of the six sectors of 60 degrees
SectorBounds == {60 * k : k \in 1..6}

\* the hue 0.1 below the bound B: 59.9, 119.9, ..., 359.9
HueNear(B) == Lit(10 * B - 1, 10)

\* hues of [0, 360): the grid and the hues just below the sector bounds
HueIn == HueGrid \cup {HueNear(B) : B \in SectorBounds}

\* a hue so small that -e + 360 rounds to 360
HueTiny == Lit(1, 2^17)

\* hues outside [0, 360): 360 + e and -e
HueOut ==
    {FAdd(FromInt(360), e) : e \in HueIn} \cup {FNeg(e) : e \in HueIn \cup {HueTiny}}

\* the values v tried
Values == {Zero, Lit(3, 10), Lit(1, 2), One}

InitHsv ==
    /\ variant \in {"submission", "sw"}
    /\ pc = "hsv_call"
    /\ vga_ball_fd = 3
    /\ status = 0
    /\ h \in HueIn \cup HueOut
    /\ s \in {Zero, One}
    /\ v \in Values
    /\ r = 0 /\ g = 0 /\ b = 0
    /\ x = 0 /\ y = 0 /\ dx = 0 /\ dy = 0
    /\ color = <<>>
    /\ position = <<>>
    /\ reqs = <<>>
    /\ issued = {}
    /\ ticks = 0
    /\ ref = <<>>

HsvCall ==
    /\ pc = "hsv_call"
    /\ HsvStore(hsv_to_rgb(h, s, v))
    /\ pc' = "hsv_return"
    /\ UNCHANGED <<variant, vga_ball_fd, status, h, s, v, x, y, dx, dy, position,
                   reqs, issued, ticks, ref>>

SpecHsv == InitHsv /\ [][HsvCall]_vars

----------------------------------------------------------------------------
(* Properties                                                               *)

\* the request codes of the current tick, in the order issued
Codes == [k \in 1..Len(reqs) |-> reqs[k][1]]

\* the advanced coordinate p1 is at or beyond a bound of the frame
Contact(p1, limit) == p1 >= limit - radius \/ p1 <= radius

\* C1 as stated: in the submission variant no tick changes the sign of both dx
\* and dy.
C1_OneAxisPerTick == [][~(dx' # dx /\ dy' # dy)]_vars

\* C1 amended: in every tick each axis's velocity is negated exactly when that
\* axis's advanced coordinate contacts a bound, and is unchanged otherwise; so a
\* contact tick flips exactly one axis unless both axes contact their bounds in
\* that same tick (a corner), where both flip.
C1_FlipPerContact ==
    [][ /\ dx' = (IF Contact(x + dx, FrameWidth) THEN -dx ELSE dx)
        /\ dy' = (IF Contact(y + dy, FrameHeight) THEN -dy ELSE dy)
        /\ (dx' # dx /\ dy' # dy) =>
              (Contact(x + dx, FrameWidth) /\ Contact(y + dy, FrameHeight)) ]_vars

\* the state right after the bottom-right corner was hit
C1_CornerTick == x = 623 /\ y = 463 /\ dx = -1 /\ dy = -1

\* the number of channels of <<r, g, b>> that are 0
ZeroChannels == Cardinality({k \in 1..3 : <<r, g, b>>[k] = 0})

\* C2 as stated: for every hue 0, 0.5, ..., 359.5 with s = 1 and v = 1 exactly
\* one of r, g, b is 0.
C2_ExactlyOneZero ==
    (pc = "hsv_return" /\ s = One /\ v = One /\ h \in HueGrid) => ZeroChannels = 1

\* C2 amended: for every hue 0, 0.5, ..., 359.5 with s = 1 and v = 1 at least
\* one channel is 0 and one is 255; exactly one channel is 0 except at the
\* primary hues 0, 120 and 240, where exactly two are.
C2_ZeroChannels ==
    (pc = "hsv_return" /\ s = One /\ v = One /\ h \in HueGrid) =>
        /\ 255 \in {r, g, b}
        /\ IF h \in {FromInt(0), FromInt(120), FromInt(240)}
           THEN ZeroChannels = 2
           ELSE ZeroChannels = 1

\* pure green: hue 120 gives two channels at 0
C2_PrimaryHue ==
    pc = "hsv_return" /\ s = One /\ v = One /\ h = FromInt(120) /\ <<r, g, b>> = <<0, 255, 0>>

\* 0.0 <= f <= 1.0
InUnit(f) == FGe(f, Zero) /\ FLe(f, One)

\* C3 as stated: in the sw variant x and y are in [0, 1] at the end of every tick.
C3_UnitSquare == (variant = "sw" /\ pc = "usleep") => (InUnit(x) /\ InUnit(y))

\* C4: whatever calls fail, a tick issues exactly WRITE_BACKGROUND, WRITE_POSITION
\* and READ_POSITION once each, only a failed open ends the process, and at the
\* start of tick n + 1 the animation state is that of the run without failures.
C4_FailureNonFatal ==
    /\ pc = "usleep" =>
          Codes = <<"VGA_BALL_WRITE_BACKGROUND", "VGA_BALL_WRITE_POSITION",
                    "VGA_BALL_READ_POSITION">>
    /\ pc = "hsv" => (anim = ref /\ reqs = <<>>)
    /\ pc \in {"exited", "terminating"} => (vga_ball_fd = -1 /\ ticks = 0)

\* the end of a second tick in which all three calls failed
C4_AllFailed ==
    /\ pc = "usleep" /\ ticks = 1 /\ Len(reqs) = 3
    /\ \A k \in 1..3 : reqs[k][3] = -1

\* C5: in every tick the requests go out as WRITE_BACKGROUND, WRITE_POSITION,
\* READ_POSITION; the position is advanced (and marshalled) after the background
\* write and before the position write; the position written is the marshalled
\* position of this tick's advance; READ_BACKGROUND is never issued.
C5_RequestOrder ==
    /\ "VGA_BALL_READ_BACKGROUND" \notin issued
    /\ pc = "set_background_color" => reqs = <<>>
    /\ pc = "bounce" =>
          /\ Codes = <<"VGA_BALL_WRITE_BACKGROUND">>
          /\ reqs[1][2] = color
          /\ <<x, y, dx, dy>> = <<ref[2], ref[3], ref[4], ref[5]>>
    /\ pc = "set_position" =>
          /\ Codes = <<"VGA_BALL_WRITE_BACKGROUND">>
          /\ <<x, y, dx, dy>> = Move(variant, <<ref[2], ref[3], ref[4], ref[5]>>)
          /\ position \in Marshal(variant, x, y)
    /\ pc = "print_position" =>
          /\ Codes = <<"VGA_BALL_WRITE_BACKGROUND", "VGA_BALL_WRITE_POSITION">>
          /\ reqs[2][2] = position
          /\ position \in Marshal(variant, x, y)
          /\ <<x, y, dx, dy>> = Move(variant, <<ref[2], ref[3], ref[4], ref[5]>>)
    /\ pc = "usleep" =>
          Codes = <<"VGA_BALL_WRITE_BACKGROUND", "VGA_BALL_WRITE_POSITION",
                    "VGA_BALL_READ_POSITION">>

\* the end of a tick of the sw variant in which the position has moved
C5_TickDone ==
    /\ variant = "sw" /\ pc = "usleep" /\ ticks = 2 /\ Len(reqs) = 3
    /\ reqs[2][2] = <<39, 63>>

\* C6: when open fails main returns a non-zero status at once: the loop is not
\* entered and no request is ever issued.
C6_OpenFailureFatal ==
    /\ vga_ball_fd = -1 =>
          (pc = "exited" /\ status # 0 /\ issued = {} /\ reqs = <<>> /\ ticks = 0
           /\ color = <<>> /\ position = <<>>)
    /\ pc = "exited" => vga_ball_fd = -1

\* open has failed
C6_OpenFailed == pc = "exited" /\ vga_ball_fd = -1 /\ status = -1

\* C7: in the submission variant an advance that brings x to the left bound
\* flips dx in that tick and leaves x above the bound, and at the end of every
\* tick 16 < x < 624 and 16 < y < 464.
C7_InsideFrame ==
    /\ [](radius < x /\ x < FrameWidth - radius /\ radius < y /\ y < FrameHeight - radius)
    /\ [][(x + dx <= radius) => (dx' = -dx /\ x' > radius)]_vars

\* the state right after a bounce off the left bound
C7_LeftBounce == x = radius + 1 /\ dx = 1 /\ position # <<>>

\* C8: in the submission variant the position written is exactly (64 x, 64 y),
\* within the 16-bit fields, and larger than that of the next smaller coordinates.
C8_ShiftExact ==
    position # <<>> =>
        /\ position = <<64 * x, 64 * y>>
        /\ position[1] < 2^16 /\ position[2] < 2^16
        /\ MarshalPixel(x - 1, y - 1)[1] < position[1]
        /\ MarshalPixel(x - 1, y - 1)[2] < position[2]

\* the largest coordinates the ball reaches
C8_FarCorner == x = 623 /\ y = 463 /\ position = <<39872, 29632>>

\* C9: once open has succeeded the loop never ends: the exit path after the loop
\* is never taken, the descriptor stays open, every tick reaches its sleep and
\* every sleep is followed by the next tick (as far as the model bounds ticks).
C9_LoopForever ==
    /\ [](pc # "terminating")
    /\ [](vga_ball_fd = 3 => (pc \notin {"open", "exited"} /\ status = 0))
    /\ [][vga_ball_fd = 3 => vga_ball_fd' = 3]_vars
    /\ (vga_ball_fd = 3 /\ pc # "usleep") ~> (pc = "usleep")
    /\ (pc = "usleep" /\ ticks < MaxTicks) ~> (pc = "hsv")

\* the loop is in its third iteration
C9_ThirdTick == vga_ball_fd = 3 /\ pc = "hsv" /\ ticks = 2

\* C10: hsv_to_rgb(0, 1, 0.3) gives (76, 0, 0), and that is the first background
\* color the submission variant writes.
C10_FirstColor ==
    /\ hsv_to_rgb(Zero, One, Lit(3, 10)) = <<76, 0, 0>>
    /\ (variant = "submission" /\ ticks = 0 /\ Len(reqs) >= 1) =>
          (reqs[1][1] = "VGA_BALL_WRITE_BACKGROUND" /\ reqs[1][2] = <<76, 0, 0>>
           /\ <<r, g, b>> = <<76, 0, 0>>)

\* the first background write of the submission variant has succeeded
C10_FirstWrite ==
    /\ variant = "submission" /\ ticks = 0 /\ pc = "bounce"
    /\ reqs = <<<<"VGA_BALL_WRITE_BACKGROUND", <<76, 0, 0>>, 0>>>>

\* the largest difference of a channel between two results
ChannelDiff(c1, c2) ==
    CHOOSE m \in 0..255 :
        /\ \A k \in 1..3 : Abs(c1[k] - c2[k]) <= m
        /\ \E k \in 1..3 : Abs(c1[k] - c2[k]) = m

\* the hue at the sector bound B, as the loop passes it (360 is passed as 0)
HueAt(B) == IF B = 360 THEN Zero ELSE FromInt(B)

\* C11: with s = 1 and v = 1 the result at each sector bound B (60, ..., 300, and
\* 0 for the wrap) differs from the result at hue B - 0.1 by at most 1 in every
\* channel.
C11_SectorContinuity ==
    (pc = "hsv_return" /\ s = One /\ v = One) =>
        \A B \in SectorBounds :
            h = HueAt(B) => ChannelDiff(<<r, g, b>>, hsv_to_rgb(HueNear(B), s, v)) <= 1

\* the bound between sectors 2 and 3: (0, 255, 255) after (0, 255, 254) at 179.9
C11_CyanBound ==
    /\ pc = "hsv_return" /\ s = One /\ v = One /\ h = FromInt(180)
    /\ <<r, g, b>> = <<0, 255, 255>>
    /\ hsv_to_rgb(HueNear(180), s, v) = <<0, 255, 254>>

\* C12 as stated: for every e in [0, 360) and every s and v the result for hue
\* 360 + e is the result for hue e, and the result for hue -e is the result for
\* hue 360 - e.
C12_HuePeriodic ==
    pc = "hsv_return" =>
        /\ FGe(h, FromInt(360)) => <<r, g, b>> = hsv_to_rgb(FSub(h, FromInt(360)), s, v)
        /\ FLt(h, Zero) => <<r, g, b>> = hsv_to_rgb(FSub(FromInt(360), FNeg(h)), s, v)

\* floor(255 v) for the values tried
Floor255(vv) ==
    CASE vv = Zero -> 0
      [] vv = Lit(3, 10) -> 76
      [] vv = Lit(1, 2) -> 127
      [] vv = One -> 255

\* C13: with s = 0 the three channels are equal, and equal to floor(255 v), for
\* every hue and every value v tried.
C13_Grayscale ==
    (pc = "hsv_return" /\ s = Zero) =>
        /\ r = g /\ g = b
        /\ r = ToInt(FMul(v, FromInt(255)))
        /\ r = Floor255(v)

\* a gray of the fourth sector
C13_Gray76 ==
    /\ pc = "hsv_return" /\ s = Zero /\ v = Lit(3, 10) /\ h = FromInt(200)
    /\ <<r, g, b>> = <<76, 76, 76>>

\* sw: the advanced coordinate p1 is at or beyond a bound of the unit range
ContactNorm(p1) == FGe(p1, One) \/ FLe(p1, Zero)

\* 0.0 < f < 1.0
InsideNorm(f) == FLt(Zero, f) /\ FLt(f, One)

\* |f1 - f2| <= 2^-23, one unit in the last place of 1.0
NearNorm(f1, f2) == FLe(FSub(f1, f2), Lit(1, 2^23)) /\ FLe(FSub(f2, f1), Lit(1, 2^23))

PixelBounceTick(p, d, p2, d2, limit) ==
    Contact(p + d, limit) => (d2 = -d /\ p2 = p /\ ~Contact(p2, limit))

\* a bounce tick of an axis of the sw variant
NormBounceTick(p, d, p2, d2) ==
    ContactNorm(FAdd(p, d)) =>
        /\ d2 = FNeg(d)
        /\ p2 = FAdd(FAdd(p, d), d2)
        /\ InsideNorm(p) => (NearNorm(p2, p) /\ InsideNorm(p2))

HueOfTick(n) == Lit(n % (2 * 360), 2)

\* the background color of hue hh
ColorOf(hh, ss, vv) ==
    <<ColorField(hsv_to_rgb(hh, ss, vv)[1]), ColorField(hsv_to_rgb(hh, ss, vv)[2]),
      ColorField(hsv_to_rgb(hh, ss, vv)[3])>>

\* C15: the hue passed to hsv_to_rgb is always in [0, 360): it is 0 in the first
\* tick, each tick advances it by 0.5, and it is reset to 0 exactly when the
\* advance reaches 360; so the hue, and the background written, of tick n are
\* those of tick n mod 720.
C15_HueCycle ==
    /\ [](pc = "hsv" =>
            (FGe(h, Zero) /\ FLt(h, FromInt(360)) /\ h = HueOfTick(ticks)))
    /\ [][pc = "hsv" =>
            h' = (IF FAdd(h, Lit(1, 2)) = FromInt(360) THEN Zero ELSE FAdd(h, Lit(1, 2)))]_vars
    /\ [](pc = "bounce" => reqs[1][2] = ColorOf(HueOfTick(ticks), s, v))

\* the hue is back at 0 after 720 ticks, and the background is the first one again
C15_FullTurn ==
    /\ variant = "sw" /\ ticks = 2 * 360 /\ pc = "bounce" /\ h = Lit(1, 2)
    /\ reqs[1][2] = <<255, 0, 0>>

\* C16 as stated: the hue is advanced before it is converted, so the background
\* written in a tick is the conversion of the hue after that tick's advance.
C16_AdvanceThenConvert ==
    pc = "bounce" => (h = HueAdvance(ref[1]) /\ reqs[1][2] = ColorOf(h, s, v))

\* C16 amended: the hue is converted before it is advanced, so the background
\* written in a tick is the conversion of the hue before that tick's advance,
\* and the hue the loop holds from then on is one advance ahead of it.
C16_ConvertThenAdvance ==
    /\ [][pc = "hsv" =>
            (<<r', g', b'>> = hsv_to_rgb(h, s, v) /\ color' = ColorOf(h, s, v)
             /\ h' = HueAdvance(h))]_vars
    /\ [](pc = "bounce" =>
            (h = HueAdvance(ref[1]) /\ reqs[1][2] = ColorOf(ref[1], s, v)))

\* the second tick of the sw variant: the color of hue 0.5 is written while the
\* loop holds hue 1.0, whose color is another
C16_SecondTick ==
    /\ variant = "sw" /\ ticks = 1 /\ pc = "bounce"
    /\ ref[1] = Lit(1, 2) /\ h = One
    /\ reqs[1][2] = <<255, 2, 0>> /\ ColorOf(h, s, v) = <<255, 4, 0>>

\* a tick in which the advance of x contacts the right (left) bound and dx flips
RightContact == x + dx >= FrameWidth - radius /\ dx' = -dx
LeftContact == x + dx <= radius /\ dx' = -dx

\* a tick in which the advance of y contacts the bottom (top) bound and dy flips
BottomContact == y + dy >= FrameHeight - radius /\ dy' = -dy
TopContact == y + dy <= radius /\ dy' = -dy

\* C17: in the submission variant, as long as ticks keep coming, each of the four
\* bounds is contacted again and again, dx and dy each change sign again and
\* again, and no axis contacts a bound in two consecutive ticks.
C17_BouncesForever ==
    /\ []<><<RightContact>>_vars /\ []<><<LeftContact>>_vars
    /\ []<><<BottomContact>>_vars /\ []<><<TopContact>>_vars
    /\ []<><<dx' = -dx>>_vars /\ []<><<dy' = -dy>>_vars
    /\ [][Contact(x + dx, FrameWidth) => ~Contact(x' + dx', FrameWidth)]_vars
    /\ [][Contact(y + dy, FrameHeight) => ~Contact(y' + dy', FrameHeight)]_vars

\* the state right after the top left corner was hit
C17_TopLeft == x = radius + 1 /\ y = radius + 1 /\ dx = 1 /\ dy = 1 /\ position # <<>>

====
